---- MODULE Spec2Model ----
(***************************************************************************)
(* Outbound-call service: profile store (getUser), voice-session creation  *)
(* (createUltravoxCall), call placement (main), recording acquisition      *)
(* (saveRecording) and the two HTTP routes, as one state machine.          *)
(* Every `await` of the source is a point where other flows may run, so    *)
(* each action is the code between two awaits.                             *)
(***************************************************************************)
EXTENDS Bags, FiniteSets, Integers, Sequences, TLC

\* ---------------------------------------------------------------- bounds
\* entries kept in the poll log (the worker itself never stops polling)
MaxPolls == 4
\* ticks after which the stopwatch `elapsed` saturates
MaxTicks == 14
\* HTTP requests served in one run
MaxReqs == 1

\* ------------------------------------------------------ program constants
\* setTimeout(() => saveRecording(...), 60000) in main
InitialDelayMs == 60000
\* await new Promise(resolve => setTimeout(resolve, 60000)) in saveRecording
SleepMs == 60000
\* setTimeout(() => saveRecording(callSid, phoneNumber), 30000)
RetryDelayMs == 30000

DESTINATION_PHONE_NUMBER == "+17206035208"
TWILIO_PHONE_NUMBER == "+15005550006"
\* a second number, used by HTTP clients
OtherPhone == "+15550100"

RECURSIVE GCD(_, _)
GCD(a, b) == IF b = 0 THEN a ELSE GCD(b, a % b)
\* the clock advances in steps that hit every timer deadline exactly
TickMs == GCD(InitialDelayMs, GCD(SleepMs, RetryDelayMs))
ElapsedCap == MaxTicks * TickMs
Min(a, b) == IF a < b THEN a ELSE b

\* ------------------------------------------------------------- JS values
Null == [null |-> TRUE]
JsUndefined == [t |-> "undefined"]
JsStr(s) == [t |-> "string", v |-> s]
JsArr(a) == [t |-> "array", v |-> a]
\* !x of JavaScript is ~Truthy(x)
Truthy(x) == x.t = "array" \/ (x.t = "string" /\ x.v # "")

\* ---------------------------------------------------------- Profile Store
\* the ObjectId of a document: who built it (each flow builds at most one
\* document per collection, so ids never repeat)
ObjectId(flow, n) == <<flow, n>>

\* new User({ phoneNumber, name: `User-${phoneNumber}` }) with schema defaults
NewUser(phoneNumber, id) ==
  [id |-> id,
   phoneNumber |-> phoneNumber,
   name |-> "User-" \o phoneNumber,
   preferences |-> [speechStyle |-> "neutral", favoriteTopics |-> <<>>],
   callHistory |-> <<>>]

Matches(coll, phoneNumber) == {i \in DOMAIN coll : coll[i].phoneNumber = phoneNumber}

\* User.findOne({ phoneNumber }): the first matching document, or null
FindOne(coll, phoneNumber) ==
  IF Matches(coll, phoneNumber) = {} THEN Null
  ELSE coll[CHOOSE i \in Matches(coll, phoneNumber) :
              \A j \in Matches(coll, phoneNumber) : i <= j]

\* UniqueViolation with the unique index missing
UniqueViolationNoIndex(coll, doc) == FALSE

\* phoneNumber: { type: String, unique: true }: the index rejects a second
\* document with the same phone number (E11000 duplicate key)
UniqueViolation(coll, doc) == Matches(coll, doc.phoneNumber) # {}

\* PushHistory assigning the history instead of appending to it
PushHistoryOverwrite(coll, id, entry) ==
  [i \in DOMAIN coll |->
     IF coll[i].id = id
     THEN [coll[i] EXCEPT !.callHistory = <<entry>>]
     ELSE coll[i]]

\* user.callHistory.push(entry); user.save()  ->  $push on the stored document
PushHistory(coll, id, entry) ==
  [i \in DOMAIN coll |->
     IF coll[i].id = id
     THEN [coll[i] EXCEPT !.callHistory = Append(@, entry)]
     ELSE coll[i]]

\* ---------------------------------------------------- recording artefacts
\* `${recording.mediaUrl}.mp3`
RecordingUrl(recording) == recording.mediaUrl \o ".mp3"
\* `./recordings/${recording.sid}.mp3`
FilePath(recording) == "./recordings/" \o recording.sid \o ".mp3"
\* { transcript: `Recording saved at ${filePath}` }
HistoryNote(filePath) == [transcript |-> "Recording saved at " \o filePath]

\* recording descriptors the provider may report for a call
Descriptor(sid) ==
  [sid |-> sid, mediaUrl |-> "https://api.twilio.com/Recordings/" \o sid]
Descriptors == {Descriptor("RE1"), Descriptor("RE2")}
\* client.recordings.list({ callSid, limit: 1 }): at most one descriptor
ListResults == {<<>>} \cup {<<d>> : d \in Descriptors}
\* the payload served at a media URL
Payload(url) == "audio:" \o url

\* ------------------------------------------------- voice-session provider
JoinBody == "{\"joinUrl\":\"wss://voice/join\"}"
ErrorBody == "{\"detail\":\"Invalid API key\"}"
HtmlBody == "<html>502 Bad Gateway</html>"
UltravoxResponses ==
  {[status |-> 201, body |-> JoinBody],
   [status |-> 401, body |-> ErrorBody],
   [status |-> 502, body |-> HtmlBody]}
\* JSON.parse(data): the parsed object, or a SyntaxError
ParseJSON(body) ==
  CASE body = JoinBody -> [ok |-> TRUE, value |-> [joinUrl |-> "wss://voice/join"]]
    [] body = ErrorBody -> [ok |-> TRUE, value |-> [detail |-> "Invalid API key"]]
    [] OTHER -> [ok |-> FALSE]
\* const { joinUrl } = ...: undefined when the property is missing
JoinUrlOf(obj) == IF "joinUrl" \in DOMAIN obj THEN obj.joinUrl ELSE "undefined"
Twiml(joinUrl) ==
  "<Response><Connect><Stream url=\"" \o joinUrl \o "\"/></Connect></Response>"
\* the session API answered with a success status and a join handle
GoodResponse(resp) ==
  /\ resp # Null
  /\ "status" \in DOMAIN resp
  /\ resp.status \in 200..299
  /\ ParseJSON(resp.body).ok
  /\ "joinUrl" \in DOMAIN ParseJSON(resp.body).value

VARIABLES
  alive,          \* the Node process is running
  users,          \* the User collection, in insertion order
  conversations,  \* the Conversation collection
  dirExists,      \* ./recordings exists
  files,          \* path -> content of the files under ./recordings
  main,           \* the call-placement flow started by app.listen
  calls,          \* calls originated at the telephony provider
  workers,        \* acquisition attempts: pending timers and running saveRecording
  elapsed,        \* ms since call origination (saturates at ElapsedCap)
  polls,          \* log of recording-list polls (first MaxPolls)
  downloads,      \* media URLs requested with axios.get
  errors,         \* what console.error printed
  reqs            \* HTTP requests

vars == <<alive, users, conversations, dirExists, files, main, calls, workers,
          elapsed, polls, downloads, errors, reqs>>


\* ------------------------------------------------------------------ Init
\* a database and disk left by an earlier run of the service
SeedUser ==
  [id |-> ObjectId("seed", 0),
   phoneNumber |-> DESTINATION_PHONE_NUMBER,
   name |-> "User-" \o DESTINATION_PHONE_NUMBER,
   preferences |-> [speechStyle |-> "friendly", favoriteTopics |-> <<"music">>],
   callHistory |-> <<HistoryNote(FilePath(Descriptor("RE0")))>>]
SeedFiles ==
  FilePath(Descriptor("RE0")) :> Payload(RecordingUrl(Descriptor("RE0")))
NoFiles == [p \in {} |-> ""]

IdleReq ==
  [kind |-> "none", pc |-> "idle", phoneNumber |-> JsUndefined,
   transcript |-> JsUndefined, user |-> Null, status |-> 0, err |-> ""]

Init ==
  /\ alive = TRUE
  /\ \/ users = <<>> /\ dirExists = FALSE /\ files = NoFiles
     \/ users = <<SeedUser>> /\ dirExists = TRUE /\ files = SeedFiles
  /\ conversations = <<>>
  /\ main = [pc |-> "init", user |-> Null, resp |-> Null, joinUrl |-> ""]
  /\ calls = <<>>
  /\ workers = <<>>
  /\ elapsed = 0
  /\ polls = <<>>
  /\ downloads = <<>>
  /\ errors = {}
  /\ reqs = [r \in 1..MaxReqs |-> IdleReq]

\* --------------------------------------------------------------- getUser
\* let user = await User.findOne({ phoneNumber }); if (!user) { user = new User(...)
\* `up`: the storage layer answered; `id`: the ObjectId of a document built here
GetUserFind(phoneNumber, id, up) ==
  IF ~up THEN [pc |-> "throw", err |-> "storage", user |-> Null]
  ELSE IF FindOne(users, phoneNumber) = Null
       THEN [pc |-> "getUser.save", err |-> "", user |-> NewUser(phoneNumber, id)]
       ELSE [pc |-> "return", err |-> "", user |-> FindOne(users, phoneNumber)]

\* await user.save() of the new document
GetUserSave(user, up) ==
  IF ~up THEN [pc |-> "throw", err |-> "storage", users |-> users]
  ELSE IF UniqueViolation(users, user)
       THEN [pc |-> "throw", err |-> "E11000", users |-> users]
       ELSE [pc |-> "return", err |-> "", users |-> Append(users, user)]

\* ------------------------------------------------------------------ main
\* catch (error) { console.error('Main execution failed:', ...) }
MainCatch ==
  /\ main' = [main EXCEPT !.pc = "failed"]
  /\ errors' = errors \cup {"Main execution failed"}

\* app.listen(PORT, () => { main(); }): main runs up to its first await
Listen ==
  /\ alive /\ main.pc = "init"
  /\ main' = [main EXCEPT !.pc = "getUser.find"]
  /\ UNCHANGED <<alive, users, conversations, dirExists, files, calls, workers,
                 elapsed, polls, downloads, errors, reqs>>

MainFind ==
  /\ alive /\ main.pc = "getUser.find"
  /\ \E up \in BOOLEAN :
       LET o == GetUserFind(DESTINATION_PHONE_NUMBER, ObjectId("main", 0), up) IN
       IF o.pc = "throw" THEN MainCatch
       ELSE /\ main' = [main EXCEPT !.user = o.user,
                          !.pc = IF o.pc = "return" THEN "createCall" ELSE o.pc]
            /\ UNCHANGED errors
  /\ UNCHANGED <<alive, users, conversations, dirExists, files, calls, workers,
                 elapsed, polls, downloads, reqs>>

MainSave ==
  /\ alive /\ main.pc = "getUser.save"
  /\ \E up \in BOOLEAN :
       LET o == GetUserSave(main.user, up) IN
       /\ users' = o.users
       /\ IF o.pc = "throw" THEN MainCatch
          ELSE main' = [main EXCEPT !.pc = "createCall"] /\ UNCHANGED errors
  /\ UNCHANGED <<alive, conversations, dirExists, files, calls, workers,
                 elapsed, polls, downloads, reqs>>

\* createUltravoxCall: the promise settles on 'response'/'end' or on 'error'
\* resolve(JSON.parse(data)) runs in the 'end' listener: a SyntaxError thrown
\* there is an uncaught exception, which ends the process
CreateUltravoxCall(resp) ==
  IF resp = [networkError |-> TRUE] THEN [pc |-> "reject", joinUrl |-> ""]
  ELSE IF ~ParseJSON(resp.body).ok THEN [pc |-> "uncaught", joinUrl |-> ""]
  ELSE [pc |-> "resolve", joinUrl |-> JoinUrlOf(ParseJSON(resp.body).value)]

MainCreateCall ==
  /\ alive /\ main.pc = "createCall"
  /\ \E resp \in UltravoxResponses \cup {[networkError |-> TRUE]} :
       LET o == CreateUltravoxCall(resp) IN
       CASE o.pc = "reject" ->
              /\ main' = [main EXCEPT !.pc = "failed", !.resp = resp]
              /\ errors' = errors \cup {"Main execution failed"}
              /\ UNCHANGED alive
         [] o.pc = "uncaught" ->
              /\ main' = [main EXCEPT !.pc = "crashed", !.resp = resp]
              /\ alive' = FALSE
              /\ errors' = errors \cup {"Uncaught SyntaxError"}
         [] OTHER ->
              /\ main' = [main EXCEPT !.pc = "placeCall", !.resp = resp,
                                      !.joinUrl = o.joinUrl]
              /\ UNCHANGED <<alive, errors>>
  /\ UNCHANGED <<users, conversations, dirExists, files, calls, workers,
                 elapsed, polls, downloads, reqs>>

\* the attempt main schedules: setTimeout(() => saveRecording(call.sid, ...), 60000)
FirstAttempt(callSid, phoneNumber) ==
  [callSid |-> callSid, phoneNumber |-> phoneNumber, pc |-> "timer",
   remaining |-> InitialDelayMs, recording |-> Null, user |-> Null]

\* const call = await client.calls.create({...}); setTimeout(...)
MainPlaceCall ==
  /\ alive /\ main.pc = "placeCall"
  /\ \E accepted \in BOOLEAN :
       IF ~accepted
       THEN MainCatch /\ UNCHANGED <<calls, workers>>
       ELSE /\ calls' = Append(calls,
                 [sid |-> "CA1", to |-> DESTINATION_PHONE_NUMBER,
                  from |-> TWILIO_PHONE_NUMBER, twiml |-> Twiml(main.joinUrl),
                  record |-> TRUE])
            /\ workers' = Append(workers,
                 FirstAttempt("CA1", DESTINATION_PHONE_NUMBER))
            /\ main' = [main EXCEPT !.pc = "done"]
            /\ UNCHANGED errors
  /\ UNCHANGED <<alive, users, conversations, dirExists, files,
                 elapsed, polls, downloads, reqs>>


\* --------------------------------------------------------- saveRecording
Replace(seq, i, list) ==
  SubSeq(seq, 1, i - 1) \o list \o SubSeq(seq, i + 1, Len(seq))

\* an attempt waits on a timer: the setTimeout that will call saveRecording,
\* or the setTimeout saveRecording awaits before it polls
Pending(w) == w.pc \in {"timer", "sleep"}
\* an attempt that has not ended
Live(w) == w.pc \notin {"Persisted", "Failed"}

\* catch (error) { console.error('Error saving recording:', error.message) }
WorkerCatch(i) ==
  /\ workers' = [workers EXCEPT ![i].pc = "Failed"]
  /\ errors' = errors \cup {"Error saving recording"}

\* time passes up to the next timer deadline; a due timer fires first
Tick ==
  /\ alive
  /\ \E i \in DOMAIN workers : Pending(workers[i])
  /\ \A i \in DOMAIN workers : Pending(workers[i]) => workers[i].remaining > 0
  /\ workers' = [i \in DOMAIN workers |->
                   IF Pending(workers[i])
                   THEN [workers[i] EXCEPT !.remaining = @ - TickMs]
                   ELSE workers[i]]
  /\ elapsed' = Min(elapsed + TickMs, ElapsedCap)
  /\ UNCHANGED <<alive, users, conversations, dirExists, files, main, calls,
                 polls, downloads, errors, reqs>>

\* the timer calls saveRecording, which runs up to
\* await new Promise(resolve => setTimeout(resolve, 60000))
EnterSaveRecording(w) == [w EXCEPT !.pc = "sleep", !.remaining = SleepMs]

TimerFire(i) ==
  /\ alive
  /\ workers[i].pc = "timer" /\ workers[i].remaining = 0
  /\ workers' = [workers EXCEPT ![i] = EnterSaveRecording(workers[i])]
  /\ UNCHANGED <<alive, users, conversations, dirExists, files, main, calls,
                 elapsed, polls, downloads, errors, reqs>>

\* the sleep ends: client.recordings.list({ callSid, limit: 1 }) is requested
SleepDone(i) ==
  /\ alive
  /\ workers[i].pc = "sleep" /\ workers[i].remaining = 0
  /\ workers' = [workers EXCEPT ![i].pc = "list"]
  /\ UNCHANGED <<alive, users, conversations, dirExists, files, main, calls,
                 elapsed, polls, downloads, errors, reqs>>

\* AfterList with the retry made at once, without any delay
AfterListNoDelay(w, res) ==
  IF ~res.ok THEN <<[w EXCEPT !.pc = "Failed"]>>
  ELSE IF Len(res.recordings) = 0
       THEN <<[w EXCEPT !.pc = "list"]>>
       ELSE <<[w EXCEPT !.pc = "download", !.recording = res.recordings[1]]>>

\* AfterList giving up on an empty list
AfterListGiveUp(w, res) ==
  IF ~res.ok \/ Len(res.recordings) = 0 THEN <<[w EXCEPT !.pc = "Failed"]>>
  ELSE <<[w EXCEPT !.pc = "download", !.recording = res.recordings[1]]>>

\* AfterList scheduling the retry twice
AfterListTwice(w, res) ==
  IF ~res.ok THEN <<[w EXCEPT !.pc = "Failed"]>>
  ELSE IF Len(res.recordings) = 0
       THEN <<[w EXCEPT !.pc = "timer", !.remaining = RetryDelayMs],
              [w EXCEPT !.pc = "timer", !.remaining = RetryDelayMs]>>
       ELSE <<[w EXCEPT !.pc = "download", !.recording = res.recordings[1]]>>

\* AfterList retrying after a rejected list as well
AfterListRetryOnError(w, res) ==
  IF ~res.ok \/ Len(res.recordings) = 0
  THEN <<[w EXCEPT !.pc = "timer", !.remaining = RetryDelayMs]>>
  ELSE <<[w EXCEPT !.pc = "download", !.recording = res.recordings[1]]>>

\* what follows the list: the attempts that take this attempt's place
\*   rejected list          -> catch, the attempt has failed
\*   recordings.length === 0 -> setTimeout(saveRecording, 30000); return
\*   otherwise              -> recordings[0] is downloaded
AfterList(w, res) ==
  IF ~res.ok THEN <<[w EXCEPT !.pc = "Failed"]>>
  ELSE IF Len(res.recordings) = 0
       THEN <<[w EXCEPT !.pc = "timer", !.remaining = RetryDelayMs]>>
       ELSE <<[w EXCEPT !.pc = "download", !.recording = res.recordings[1]]>>

Poll(i) ==
  /\ alive
  /\ workers[i].pc = "list"
  /\ \E res \in {[ok |-> FALSE, recordings |-> <<>>]}
                  \cup {[ok |-> TRUE, recordings |-> l] : l \in ListResults} :
       /\ workers' = Replace(workers, i, AfterList(workers[i], res))
       /\ polls' = IF Len(polls) < MaxPolls
                   THEN Append(polls, [at |-> elapsed, res |-> res])
                   ELSE polls
       /\ downloads' = downloads \o
            [k \in 1..Len(SelectSeq(AfterList(workers[i], res),
                                    LAMBDA a : a.pc = "download")) |->
               RecordingUrl(SelectSeq(AfterList(workers[i], res),
                                      LAMBDA a : a.pc = "download")[k].recording)]
       /\ errors' = IF \E k \in DOMAIN AfterList(workers[i], res) :
                         AfterList(workers[i], res)[k].pc = "Failed"
                    THEN errors \cup {"Error saving recording"}
                    ELSE errors
  /\ UNCHANGED <<alive, users, conversations, dirExists, files, main, calls,
                 elapsed, reqs>>

\* the download answers; then, in the same turn,
\*   if (!fs.existsSync('./recordings')) fs.mkdirSync(...)
\*   fs.writeFileSync(filePath, response.data)
\*   getUser(phoneNumber) up to its findOne
Download(i) ==
  /\ alive
  /\ workers[i].pc = "download"
  /\ \E got \in BOOLEAN, fs \in {"ok", "mkdir throws", "write throws"} :
       LET path == FilePath(workers[i].recording) IN
       IF ~got
       THEN WorkerCatch(i) /\ UNCHANGED <<dirExists, files>>
       ELSE IF fs = "mkdir throws"
       THEN ~dirExists /\ WorkerCatch(i) /\ UNCHANGED <<dirExists, files>>
       ELSE IF fs = "write throws"
       THEN WorkerCatch(i) /\ dirExists' = TRUE /\ UNCHANGED files
       ELSE /\ dirExists' = TRUE
            /\ files' = [p \in DOMAIN files \cup {path} |->
                           IF p = path
                           THEN Payload(RecordingUrl(workers[i].recording))
                           ELSE files[p]]
            /\ workers' = [workers EXCEPT ![i].pc = "getUser.find"]
            /\ UNCHANGED errors
  /\ UNCHANGED <<alive, users, conversations, main, calls, elapsed, polls,
                 downloads, reqs>>

\* const user = await getUser(phoneNumber): its findOne answers, or the save
\* of the document it built answers
WorkerGetUser(i) ==
  /\ alive
  /\ workers[i].pc \in {"getUser.find", "getUser.save"}
  /\ \E up \in BOOLEAN :
       IF workers[i].pc = "getUser.find"
       THEN LET o == GetUserFind(workers[i].phoneNumber,
                                 ObjectId("saveRecording", 0), up) IN
            /\ IF o.pc = "throw" THEN WorkerCatch(i)
               ELSE /\ workers' = [workers EXCEPT ![i].user = o.user,
                         ![i].pc = IF o.pc = "return" THEN "history.save" ELSE o.pc]
                    /\ UNCHANGED errors
            /\ UNCHANGED users
       ELSE LET o == GetUserSave(workers[i].user, up) IN
            /\ users' = o.users
            /\ IF o.pc = "throw" THEN WorkerCatch(i)
               ELSE /\ workers' = [workers EXCEPT ![i].pc = "history.save"]
                    /\ UNCHANGED errors
  /\ UNCHANGED <<alive, conversations, dirExists, files, main, calls,
                 elapsed, polls, downloads, reqs>>

\* user.callHistory.push({ transcript: `Recording saved at ${filePath}` });
\* await user.save();
WorkerHistorySave(i) ==
  /\ alive
  /\ workers[i].pc = "history.save"
  /\ \E up \in BOOLEAN :
       IF ~up THEN WorkerCatch(i) /\ UNCHANGED users
       ELSE /\ users' = PushHistory(users, workers[i].user.id,
                           HistoryNote(FilePath(workers[i].recording)))
            /\ workers' = [workers EXCEPT ![i].pc = "Persisted"]
            /\ UNCHANGED errors
  /\ UNCHANGED <<alive, conversations, dirExists, files, main, calls,
                 elapsed, polls, downloads, reqs>>


\* ----------------------------------------------------------- HTTP routes
GetPhones == {DESTINATION_PHONE_NUMBER, OtherPhone}
PostPhones == {JsUndefined, JsStr(OtherPhone)}
PostTranscripts ==
  {JsUndefined, JsStr(""),
   JsArr(<<[speaker |-> "user", message |-> "hello"]>>)}

\* requests take the slots in order
Free(r) ==
  /\ reqs[r].pc = "idle"
  /\ IF r = 1 THEN TRUE ELSE reqs[r - 1].pc # "idle"

\* res.status(status).json(...): the request is answered
Respond(q, status, err, body) ==
  [q EXCEPT !.pc = "done", !.status = status, !.err = err, !.user = body]

\* app.get('/user/:phoneNumber'): the handler runs up to getUser's findOne
HttpGet(r) ==
  /\ alive /\ main.pc # "init" /\ Free(r)
  /\ \E phone \in GetPhones :
       reqs' = [reqs EXCEPT ![r] = [IdleReq EXCEPT !.kind = "GET",
                  !.pc = "getUser.find", !.phoneNumber = JsStr(phone)]]
  /\ UNCHANGED <<alive, users, conversations, dirExists, files, main, calls,
                 workers, elapsed, polls, downloads, errors>>

\* Validate checking the phone number alone
ValidatePhoneOnly(q) ==
  IF ~Truthy(q.phoneNumber)
  THEN Respond(q, 400, "Phone number and transcript required.", Null)
  ELSE [q EXCEPT !.pc = "getUser.find"]

\* if (!phoneNumber || !transcript) return res.status(400).json(...)
Validate(q) ==
  IF ~Truthy(q.phoneNumber) \/ ~Truthy(q.transcript)
  THEN Respond(q, 400, "Phone number and transcript required.", Null)
  ELSE [q EXCEPT !.pc = "getUser.find"]

\* app.post('/conversation'): the handler runs up to getUser's findOne
HttpPost(r) ==
  /\ alive /\ main.pc # "init" /\ Free(r)
  /\ \E phone \in PostPhones, transcript \in PostTranscripts :
       reqs' = [reqs EXCEPT ![r] = Validate([IdleReq EXCEPT !.kind = "POST",
                  !.phoneNumber = phone, !.transcript = transcript])]
  /\ UNCHANGED <<alive, users, conversations, dirExists, files, main, calls,
                 workers, elapsed, polls, downloads, errors>>

\* getUser returned to the route: GET answers res.json(user); POST builds the
\* Conversation and awaits its save
Returned(q, user) ==
  IF q.kind = "GET" THEN Respond(q, 200, "", user)
  ELSE [q EXCEPT !.pc = "conversation.save", !.user = user]

ReqFind(r) ==
  /\ alive /\ reqs[r].pc = "getUser.find"
  /\ \E up \in BOOLEAN :
       LET o == GetUserFind(reqs[r].phoneNumber.v, ObjectId("request", r), up) IN
       reqs' = [reqs EXCEPT ![r] =
                  CASE o.pc = "throw" -> Respond(reqs[r], 500, o.err, Null)
                    [] o.pc = "return" -> Returned(reqs[r], o.user)
                    [] OTHER -> [reqs[r] EXCEPT !.pc = o.pc, !.user = o.user]]
  /\ UNCHANGED <<alive, users, conversations, dirExists, files, main, calls,
                 workers, elapsed, polls, downloads, errors>>

ReqSave(r) ==
  /\ alive /\ reqs[r].pc = "getUser.save"
  /\ \E up \in BOOLEAN :
       LET o == GetUserSave(reqs[r].user, up) IN
       /\ users' = o.users
       /\ reqs' = [reqs EXCEPT ![r] =
                     IF o.pc = "throw" THEN Respond(reqs[r], 500, o.err, Null)
                     ELSE Returned(reqs[r], reqs[r].user)]
  /\ UNCHANGED <<alive, conversations, dirExists, files, main, calls,
                 workers, elapsed, polls, downloads, errors>>

\* new Conversation({ userId: user._id, transcript })
NewConversation(q, id) ==
  [id |-> id, userId |-> q.user.id, transcript |-> q.transcript]

\* await conversation.save(); res.status(201).json(...)
ReqConversationSave(r) ==
  /\ alive /\ reqs[r].pc = "conversation.save"
  /\ \E up \in BOOLEAN :
       IF ~up
       THEN /\ reqs' = [reqs EXCEPT ![r] = Respond(reqs[r], 500, "storage", Null)]
            /\ UNCHANGED conversations
       ELSE /\ conversations' = Append(conversations, NewConversation(reqs[r], ObjectId("request", r)))
            /\ reqs' = [reqs EXCEPT ![r] = Respond(reqs[r], 201, "", Null)]
  /\ UNCHANGED <<alive, users, dirExists, files, main, calls,
                 workers, elapsed, polls, downloads, errors>>

\* ------------------------------------------------------------------ Spec
Next ==
  \/ Listen
  \/ MainFind
  \/ MainSave
  \/ MainCreateCall
  \/ MainPlaceCall
  \/ Tick
  \/ \E i \in DOMAIN workers : TimerFire(i)
  \/ \E i \in DOMAIN workers : SleepDone(i)
  \/ \E i \in DOMAIN workers : Poll(i)
  \/ \E i \in DOMAIN workers : Download(i)
  \/ \E i \in DOMAIN workers : WorkerGetUser(i)
  \/ \E i \in DOMAIN workers : WorkerHistorySave(i)
  \/ \E r \in 1..MaxReqs : HttpGet(r)
  \/ \E r \in 1..MaxReqs : HttpPost(r)
  \/ \E r \in 1..MaxReqs : ReqFind(r)
  \/ \E r \in 1..MaxReqs : ReqSave(r)
  \/ \E r \in 1..MaxReqs : ReqConversationSave(r)

Spec == Init /\ [][Next]_vars


\* the event loop: time passes and due timers run their callbacks
FairSpec ==
  /\ Spec
  /\ WF_vars(Tick)
  /\ WF_vars(\E i \in DOMAIN workers : TimerFire(i))
  /\ WF_vars(\E i \in DOMAIN workers : SleepDone(i))

\* ---------------------------------------------------------------- helpers
EmptyPoll(p) == p.res.ok /\ Len(p.res.recordings) = 0
FoundPoll(p) == p.res.ok /\ Len(p.res.recordings) > 0
HistoryOf(coll, phoneNumber) ==
  IF FindOne(coll, phoneNumber) = Null THEN <<>>
  ELSE FindOne(coll, phoneNumber).callHistory
\* the history the user had when the process started
OldHistory(u) == IF u.id = SeedUser.id THEN SeedUser.callHistory ELSE <<>>
LiveAttempts(ws, callSid) ==
  {i \in DOMAIN ws : Live(ws[i]) /\ ws[i].callSid = callSid}
CallSids == {"CA1"}


\* ---------------------------------------------------------------- claims
\* C1: when the first poll of a call finds no recording and the second finds
\* one, at least 30 seconds lie between the two polls, the one download made
\* is of the descriptor the second poll returned, the file stored is that
\* recording, and nothing was downloaded while only the empty poll had been made.
C1_RetryThenDownload ==
  /\ (Len(polls) = 1 /\ EmptyPoll(polls[1])) => downloads = <<>>
  /\ (Len(polls) >= 2 /\ EmptyPoll(polls[1]) /\ FoundPoll(polls[2])) =>
       /\ polls[2].at < ElapsedCap => polls[2].at - polls[1].at >= 30000
       /\ downloads = <<polls[2].res.recordings[1].mediaUrl \o ".mp3">>
       /\ \A i \in DOMAIN workers :
            /\ workers[i].pc \notin {"timer", "sleep", "list"} =>
                 workers[i].recording = polls[2].res.recordings[1]
            /\ workers[i].pc \in {"getUser.find", "getUser.save",
                                  "history.save", "Persisted"} =>
                 /\ ("./recordings/" \o polls[2].res.recordings[1].sid \o ".mp3")
                      \in DOMAIN files
                 /\ files["./recordings/" \o polls[2].res.recordings[1].sid \o ".mp3"]
                      = Payload(downloads[1])

C1_Witness ==
  /\ Len(polls) = 2 /\ EmptyPoll(polls[1]) /\ FoundPoll(polls[2])
  /\ polls[2].at < ElapsedCap
  /\ \E i \in DOMAIN workers : workers[i].pc = "Persisted"

\* C2: an empty poll never fails the acquisition or logs an error, it leaves
\* a retry pending; and whenever a retry is pending after a poll, another poll
\* of the same call is eventually made, however many retries came before.
AwaitingRetry ==
  polls # <<>> /\ \E i \in DOMAIN workers : workers[i].pc \in {"timer", "sleep"}
Polling == \E i \in DOMAIN workers : workers[i].pc = "list"

C2_EmptyPollStep ==
  (Len(polls') > Len(polls) /\ EmptyPoll(polls'[Len(polls')])) =>
     /\ errors' = errors
     /\ \A i \in DOMAIN workers' : workers'[i].pc # "Failed"
     /\ \E i \in DOMAIN workers' :
          workers'[i].pc = "timer" /\ workers'[i].callSid = "CA1"

C2_KeepsPolling ==
  /\ [][C2_EmptyPollStep]_vars
  /\ []((Len(polls) < MaxPolls /\ \A i \in DOMAIN polls : EmptyPoll(polls[i])) =>
          \A j \in DOMAIN workers : workers[j].pc # "Failed")
  /\ AwaitingRetry ~> Polling

C2_Witness ==
  /\ Len(polls) >= 4
  /\ \A i \in DOMAIN polls : EmptyPoll(polls[i])
  /\ Polling


\* C3: once the download of a polled recording has succeeded and the file is
\* written, recordings/<sid>.mp3 is on disk with the downloaded payload; an
\* acquisition that finishes (Persisted) leaves the call's user with exactly one new
\* history entry, whose note names that path, appended after the entries the
\* user had before; until then the history is as it was, so no number of
\* retries gives a call two entries.
C3_PersistedOnce ==
  \A i \in DOMAIN workers :
    LET w == workers[i]
        u == FindOne(users, w.phoneNumber)
    IN /\ w.pc \in {"getUser.find", "getUser.save", "history.save", "Persisted"} =>
            /\ ("./recordings/" \o w.recording.sid \o ".mp3") \in DOMAIN files
            /\ files["./recordings/" \o w.recording.sid \o ".mp3"]
                 = Payload(w.recording.mediaUrl \o ".mp3")
       /\ w.pc = "Persisted" =>
            /\ u # Null
            /\ u.callHistory =
                 Append(OldHistory(u),
                        [transcript |-> "Recording saved at ./recordings/"
                                          \o w.recording.sid \o ".mp3"])
       /\ w.pc # "Persisted" => (u = Null \/ u.callHistory = OldHistory(u))

C3_Witness ==
  \E i \in DOMAIN workers :
    /\ workers[i].pc = "Persisted"
    /\ Len(polls) >= 3
    /\ Len(HistoryOf(users, workers[i].phoneNumber)) = 2

\* C4: no two User records share a phone number; a record is only ever added
\* for a number that had none, one at a time, with the default preferences
\* and an empty history; and the user a getUser call returned is the stored
\* record of that number, so a later call gets the record the first one made.
C4_Unique ==
  \A i, j \in DOMAIN users :
    users[i].phoneNumber = users[j].phoneNumber => i = j

C4_ReturnedIsStored ==
  /\ main.pc \in {"createCall", "placeCall", "done"} =>
       FindOne(users, DESTINATION_PHONE_NUMBER).id = main.user.id
  /\ \A i \in DOMAIN workers :
       workers[i].pc \in {"history.save", "Persisted"} =>
         FindOne(users, workers[i].phoneNumber).id = workers[i].user.id
  /\ \A r \in DOMAIN reqs :
       /\ (reqs[r].pc = "conversation.save"
             \/ (reqs[r].kind = "GET" /\ reqs[r].status = 200)) =>
            FindOne(users, reqs[r].phoneNumber.v).id = reqs[r].user.id
       /\ (reqs[r].kind = "GET" /\ reqs[r].status = 200
             /\ reqs[r].user.id = ObjectId("request", r)) =>
            /\ reqs[r].user.preferences =
                 [speechStyle |-> "neutral", favoriteTopics |-> <<>>]
            /\ reqs[r].user.callHistory = <<>>

C4_CreateStep ==
  Len(users') # Len(users) =>
     /\ Len(users') = Len(users) + 1
     /\ SubSeq(users', 1, Len(users)) = users
     /\ Matches(users, users'[Len(users')].phoneNumber) = {}
     /\ users'[Len(users')].preferences =
          [speechStyle |-> "neutral", favoriteTopics |-> <<>>]
     /\ users'[Len(users')].callHistory = <<>>

C4_GetOrCreate ==
  /\ [](C4_Unique /\ C4_ReturnedIsStored)
  /\ [][C4_CreateStep]_vars

C4_Witness ==
  /\ users # <<>>
  /\ users[1].id = ObjectId("main", 0)
  /\ \E r \in DOMAIN reqs :
       /\ reqs[r].kind = "GET" /\ reqs[r].status = 200
       /\ reqs[r].user.id = users[1].id

\* C5: every answered GET /user/:phoneNumber that met no storage outage was
\* answered 200.
C5_GetAlways200 ==
  \A r \in DOMAIN reqs :
    (reqs[r].kind = "GET" /\ reqs[r].pc = "done" /\ reqs[r].err # "storage") =>
      reqs[r].status = 200

\* C6: a POST /conversation without phoneNumber or without transcript is
\* answered 400 in the step that receives it, that step changes neither
\* collection, and no Conversation of that request ever exists.
Missing(x) == x = JsUndefined

C6_Rejected ==
  \A r \in DOMAIN reqs :
    (reqs[r].kind = "POST"
       /\ (Missing(reqs[r].phoneNumber) \/ Missing(reqs[r].transcript))) =>
      /\ reqs[r].pc = "done" /\ reqs[r].status = 400
      /\ \A c \in DOMAIN conversations :
           conversations[c].id # ObjectId("request", r)

C6_RejectStep ==
  (\E r \in DOMAIN reqs : reqs'[r].status = 400 /\ reqs[r].status # 400) =>
     /\ users' = users
     /\ conversations' = conversations

C6_MissingField400 == []C6_Rejected /\ [][C6_RejectStep]_vars

C6_Witness ==
  \E r \in DOMAIN reqs :
    /\ reqs[r].kind = "POST" /\ reqs[r].status = 400
    /\ ~Missing(reqs[r].phoneNumber) /\ Missing(reqs[r].transcript)

\* C7: once the voice-session API has answered with a non-success status or a
\* payload without a join handle, the placement flow goes no further: no call
\* is originated and no acquisition is scheduled.
C7_BadResponseAborts ==
  (main.resp # Null /\ ~GoodResponse(main.resp)) =>
     /\ main.pc # "done"
     /\ calls = <<>>
     /\ workers = <<>>

\* C8: poll number k (from 0) of a call is made 60 + 30*k seconds after the
\* call was originated.
C8_PollSchedule ==
  \A k \in DOMAIN polls :
    polls[k].at < ElapsedCap => polls[k].at = 60000 + 30000 * (k - 1)


\* C9: a call never has two acquisition attempts (a pending timer or a running
\* saveRecording) at once; the number of attempts of a call only grows when
\* the call is originated; and a retry timer is only set by the step that
\* learns the result of the attempt's poll, which ends that attempt.
C9_OneAttempt ==
  \A c \in CallSids : Cardinality(LiveAttempts(workers, c)) <= 1

\* the attempts whose timer was set in this step
NewTimers ==
  {j \in DOMAIN workers' :
     /\ workers'[j].pc = "timer"
     /\ IF j \in DOMAIN workers THEN workers[j].pc # "timer" ELSE TRUE}

C9_SuccessorStep ==
  /\ \A c \in CallSids :
       Cardinality(LiveAttempts(workers', c))
         > Cardinality(LiveAttempts(workers, c)) => Len(calls') > Len(calls)
  /\ (NewTimers # {} /\ calls' = calls) =>
       /\ Cardinality(NewTimers) = 1
       /\ \A j \in NewTimers :
            \E i \in DOMAIN workers :
              workers[i].pc = "list" /\ workers[i].callSid = workers'[j].callSid
       /\ \A i \in DOMAIN workers' : workers'[i].pc # "list"

C9_Sequential == []C9_OneAttempt /\ [][C9_SuccessorStep]_vars

C9_Witness ==
  /\ Len(polls) >= 2
  /\ \E i \in DOMAIN workers :
       workers[i].pc = "timer" /\ workers[i].remaining = RetryDelayMs
  /\ Cardinality(LiveAttempts(workers, "CA1")) = 1

\* C10: a failed acquisition is final and harmless: the error was logged and
\* the process and the placement flow are untouched; the attempt stays Failed
\* and its call has no other attempt; from then on no poll, download, file or
\* history entry is added; and a retry timer is set only by a poll that
\* returned zero recordings.
SomeFailed == \E i \in DOMAIN workers : workers[i].pc = "Failed"

C10_FailedState ==
  SomeFailed =>
    /\ alive /\ main.pc = "done"
    /\ "Error saving recording" \in errors
    /\ \A i \in DOMAIN workers : ~Live(workers[i])

C10_FailedStep ==
  /\ SomeFailed =>
       /\ workers' = workers
       /\ polls' = polls /\ downloads' = downloads /\ files' = files
       /\ HistoryOf(users', DESTINATION_PHONE_NUMBER)
            = HistoryOf(users, DESTINATION_PHONE_NUMBER)
  /\ (NewTimers # {} /\ calls' = calls) =>
       /\ \E i \in DOMAIN workers : workers[i].pc = "list"
       /\ Len(polls') > Len(polls) => EmptyPoll(polls'[Len(polls')])

C10_FailedIsTerminal == []C10_FailedState /\ [][C10_FailedStep]_vars

C10_Witness ==
  /\ SomeFailed
  /\ Len(polls) >= 2
  /\ downloads # <<>>
  /\ \E r \in DOMAIN reqs : reqs[r].pc = "done"

====
